---- MODULE Spec2Model ----
(***************************************************************************)
(* A model of the control schema engine of src/app.py: the control         *)
(* catalog and its index, the state document, and the operations that      *)
(* load, merge, normalise, convert, write and prune.                       *)
(*                                                                         *)
(* JSON/Python values are tagged records [k |-> kind, v |-> payload]:      *)
(*   null, bool, int, float (an exact rational <<n, d>>), inf (the float   *)
(*   infinity that json.loads accepts), str, list (a sequence of values)   *)
(*   and dict (a function from keys to values).                            *)
(* A string is represented by the sequence of its dot-separated            *)
(* components, so that "ac.power" is <<"ac", "power">>: str.split(".") is  *)
(* then the payload of the string, and the f-string join of                *)
(* flatten_update is Append.  Dictionary keys are dot-free strings.        *)
(***************************************************************************)
EXTENDS Integers, Sequences, FiniteSets, TLC

(***************************************************************************)
(* Values                                                                  *)
(***************************************************************************)
Null == [k |-> "null"]
Inf == [k |-> "inf"]
L(s) == [k |-> "list", v |-> s]
B(b) == [k |-> "bool", v |-> b]
I(n) == [k |-> "int", v |-> n]
F(q) == [k |-> "float", v |-> q]
S(s) == [k |-> "str", v |-> s]
Str(s) == [k |-> "str", v |-> <<s>>]
D(f) == [k |-> "dict", v |-> f]
Empty == [q \in {} |-> Null]

Range(s) == {s[i] : i \in DOMAIN s}

\* a mapping written with some of its fields left out
Absent == [k |-> "absent"]
Strip(f) == [key \in {x \in DOMAIN f : f[x] # Absent} |-> f[key]]

IsDict(x) == x.k = "dict"
IsStr(x) == x.k = "str"
\* isinstance(x, (int, float)): bool is a subclass of int
IsNumber(x) == x.k \in {"bool", "int", "float", "inf"}

\* d[key] = val
Put(f, key, val) == [x \in (DOMAIN f) \cup {key} |-> IF x = key THEN val ELSE f[x]]
\* del d[key]
Remove(f, key) == [x \in (DOMAIN f) \ {key} |-> f[x]]
\* d.get(key, default)
Get(f, key, default) == IF key \in DOMAIN f THEN f[key] ELSE default

(***************************************************************************)
(* Exact arithmetic on rationals <<n, d>> with d > 0, in lowest terms.     *)
(***************************************************************************)
Abs(x) == IF x < 0 THEN -x ELSE x

RECURSIVE GCD(_, _)
GCD(a, b) == IF b = 0 THEN a ELSE GCD(b, a % b)

Rat(n, d) ==
    LET s == IF d < 0 THEN -1 ELSE 1
        g == GCD(Abs(n), Abs(d))
    IN  <<(s * n) \div g, (s * d) \div g>>

RSub(p, q) == Rat(p[1] * q[2] - q[1] * p[2], p[2] * q[2])
RAdd(p, q) == Rat(p[1] * q[2] + q[1] * p[2], p[2] * q[2])
RMul(p, q) == Rat(p[1] * q[1], p[2] * q[2])
RDiv(p, q) == Rat(p[1] * q[2], p[2] * q[1])
RLess(p, q) == p[1] * q[2] < q[1] * p[2]

\* Python 3 round(x): to the nearest integer, ties to the even one
Round(q) ==
    LET f == q[1] \div q[2]
        r == 2 * (q[1] - f * q[2])
    IN  IF r < q[2] THEN f
        ELSE IF r > q[2] THEN f + 1
        ELSE IF f % 2 = 0 THEN f ELSE f + 1

\* int(x) of a finite float: truncation toward zero
Trunc(q) == IF q[1] >= 0 THEN q[1] \div q[2] ELSE -((-q[1]) \div q[2])

\* the number a bool, int or finite float stands for
NumQ(x) ==
    IF x.k = "bool" THEN (IF x.v THEN <<1, 1>> ELSE <<0, 1>>)
    ELSE IF x.k = "int" THEN <<x.v, 1>>
    ELSE x.v

\* the result of an arithmetic operator: a float as soon as one operand is
Arith(q, operands) ==
    IF \E x \in operands : x.k = "float" THEN F(q) ELSE I(q[1] \div q[2])

(***************************************************************************)
(* String conversions, given as tables over the strings of the model.      *)
(***************************************************************************)
\* value.strip().lower(); every other string of the model is already
\* lower-case and has no surrounding whitespace
LowerStrip(s) ==
    CASE s = <<"ON">> -> <<"on">>
      [] s = <<" off ">> -> <<"off">>
      [] s = <<"FM">> -> <<"fm">>
      [] s = <<"AM">> -> <<"am">>
      [] s = <<"XM">> -> <<"xm">>
      [] OTHER -> s

\* the decimal numerals that int(str) and float(str) parse: <<n, str(n)>>
Numerals ==
    { <<0, <<"0">>>>, <<1, <<"1">>>>, <<3, <<"3">>>>, <<7, <<"7">>>>,
      <<97, <<"97">>>>, <<98, <<"98">>>>, <<103, <<"103">>>>,
      <<300, <<"300">>>>, <<-10, <<"-10">>>> }

IsNumeral(s) == \E p \in Numerals : p[2] = s
ParseInt(s) == (CHOOSE p \in Numerals : p[2] = s)[1]
\* str(n) of an int
StrOfInt(n) == (CHOOSE p \in Numerals : p[1] = n)[2]
\* str(x) of a finite float: "2.5" is the components "2" and "5"
StrOfFloat(q) ==
    CASE q = <<5, 2>> -> <<"2", "5">>
      [] q = <<7, 2>> -> <<"3", "5">>

\* str(value) for the values that are neither a mapping nor a sequence
StrOf(x) ==
    CASE x.k = "str" -> x.v
      [] x.k = "null" -> <<"None">>
      [] x.k = "bool" -> (IF x.v THEN <<"True">> ELSE <<"False">>)
      [] x.k = "int" -> StrOfInt(x.v)
      [] x.k = "float" -> StrOfFloat(x.v)
      [] x.k = "inf" -> <<"inf">>

(***************************************************************************)
(* normalize_value.  The result records which return statement was taken   *)
(* (ret) and the Python value returned (val): "return None" returns Null.  *)
(***************************************************************************)
Coerced(x) == [ret |-> "coerced", val |-> x]
Rejected == [ret |-> "reject", val |-> Null]
Raised == [ret |-> "raise", val |-> Null]

TrueWords == {<<"true">>, <<"1">>, <<"on">>, <<"yes">>}
FalseWords == {<<"false">>, <<"0">>, <<"off">>, <<"no">>}

\* lines 393-407
CoerceBool(value) ==
    IF value.k = "bool" THEN Coerced(value)
    ELSE IF value.k = "str" THEN
        LET lowered == LowerStrip(value.v)
        IN  IF lowered \in TrueWords THEN Coerced(B(TRUE))
            ELSE IF lowered \in FalseWords THEN Coerced(B(FALSE))
            ELSE Rejected
    ELSE IF value.k = "inf" THEN Coerced(B(TRUE))
    ELSE IF value.k \in {"int", "float"} THEN Coerced(B(NumQ(value)[1] # 0))
    ELSE Rejected

\* lines 408-412: int(value) raises TypeError for None and sequences, ValueError
\* for a string that is no numeral (both caught) and OverflowError for an
\* infinite float (not caught); the numerals of the model have no whitespace
CoerceInt(value) ==
    CASE value.k = "bool" -> Coerced(I(NumQ(value)[1]))
      [] value.k = "int" -> Coerced(value)
      [] value.k = "float" -> Coerced(I(Trunc(value.v)))
      [] value.k = "inf" -> Raised
      [] value.k = "str" ->
            IF IsNumeral(value.v)
            THEN Coerced(I(ParseInt(value.v)))
            ELSE Rejected
      [] OTHER -> Rejected

\* lines 413-417
CoerceFloat(value) ==
    CASE value.k \in {"bool", "int"} -> Coerced(F(NumQ(value)))
      [] value.k \in {"float", "inf"} -> Coerced(value)
      [] value.k = "str" ->
            IF IsNumeral(value.v)
            THEN Coerced(F(<<ParseInt(value.v), 1>>))
            ELSE Rejected
      [] OTHER -> Rejected

\* lines 418-421
CoerceStr(value) ==
    IF value.k \in {"dict", "list"} THEN Rejected ELSE Coerced(S(StrOf(value)))

\* lines 393-421
Coerce(value_type, value) ==
    IF value_type = Str("bool") THEN CoerceBool(value)
    ELSE IF value_type = Str("int") THEN CoerceInt(value)
    ELSE IF value_type = Str("float") THEN CoerceFloat(value)
    ELSE CoerceStr(value)

\* Python ==: numbers compare by value across bool, int and float
PyEq(x, y) ==
    IF x.k \in {"bool", "int", "float"} /\ y.k \in {"bool", "int", "float"}
    THEN NumQ(x) = NumQ(y)
    ELSE x = y

\* lines 423-426: "coerced not in values" needs a container: for a list it
\* compares with ==; for None or a number it raises TypeError
SelectCheck(control, coerced) ==
    LET values == Get(control, "values", L(<<>>))
    IN  IF values.k = "list"
        THEN IF \E i \in 1..Len(values.v) : PyEq(values.v[i], coerced)
             THEN Coerced(coerced) ELSE Rejected
        ELSE Raised

\* the values Python takes for false in "x or 1" and "if x"
Falsy(x) ==
    \/ x.k = "null"
    \/ x.k = "bool" /\ ~x.v
    \/ x.k \in {"int", "float"} /\ NumQ(x)[1] = 0
    \/ x.k = "str" /\ x.v = <<"">>
    \/ x.k = "list" /\ x.v = <<>>
    \/ x.k = "dict" /\ DOMAIN x.v = {}

\* max(a, b) and min(a, b) return a unless b is strictly beyond it; a is a
\* finite bound of the descriptor, b the coerced number
PyMax(a, b) ==
    IF b.k = "inf" THEN b ELSE IF RLess(NumQ(a), NumQ(b)) THEN b ELSE a
PyMin(a, b) ==
    IF b.k = "inf" THEN a ELSE IF RLess(NumQ(b), NumQ(a)) THEN b ELSE a

\* lines 439-440: steps = round((coerced - min_value) / step);
\* coerced = min_value + steps * step.  The mutant takes int() for round().
SnapToStep_trunc(clamped, min_value, step) ==
    LET steps == Trunc(RDiv(RSub(NumQ(clamped), NumQ(min_value)), NumQ(step)))
    IN  Arith(RAdd(NumQ(min_value), RMul(<<steps, 1>>, NumQ(step))),
              {min_value, step})

SnapToStep(clamped, min_value, step) ==
    LET steps == Round(RDiv(RSub(NumQ(clamped), NumQ(min_value)), NumQ(step)))
    IN  Arith(RAdd(NumQ(min_value), RMul(<<steps, 1>>, NumQ(step))),
              {min_value, step})

\* lines 428-442.  Comparing or subtracting a number and a string or list
\* raises TypeError; round() of an infinite float raises OverflowError.
SliderSnap(control, value_type, coerced) ==
    LET min_value == Get(control, "min", Null)
        max_value == Get(control, "max", Null)
        step == IF Falsy(Get(control, "step", Null)) THEN I(1)
                ELSE Get(control, "step", Null)
    IN  IF ~IsNumber(coerced) THEN Coerced(coerced)
        ELSE IF min_value # Null /\ ~IsNumber(min_value) THEN Raised
        ELSE IF max_value # Null /\ ~IsNumber(max_value) THEN Raised
        ELSE
            LET lower == IF min_value # Null THEN PyMax(min_value, coerced)
                         ELSE coerced
                clamped == IF max_value # Null THEN PyMin(max_value, lower)
                           ELSE lower
                base == IF min_value = Null THEN I(0) ELSE min_value
            IN  IF clamped.k = "inf" \/ ~IsNumber(step) THEN Raised
                ELSE LET snapped == SnapToStep(clamped, base, step)
                     IN  IF value_type = Str("int")
                         THEN Coerced(I(Round(NumQ(snapped))))
                         ELSE Coerced(snapped)

\* lines 428-444: the slider branch, then "return coerced"
AfterSelect(control, selected) ==
    IF selected.ret = "coerced" /\ Get(control, "type", Str("input")) = Str("slider")
    THEN SliderSnap(control, Get(control, "value_type", Str("str")), selected.val)
    ELSE selected

\* lines 423-426: the select branch
AfterCoerce(control, coerced) ==
    AfterSelect(control,
                IF coerced.ret = "coerced"
                   /\ Get(control, "type", Str("input")) = Str("select")
                THEN SelectCheck(control, coerced.val)
                ELSE coerced)

\* lines 389-444
normalize_value(control, value) ==
    AfterCoerce(control, Coerce(Get(control, "value_type", Str("str")), value))

\* lines 447-453: arithmetic on a value that is no number (a string, None,
\* a list) raises TypeError; "/" and the factor 1.60934 make the result a float
apply_conversion(control, value) ==
    LET conversion == Get(control, "conversion", Null)
    IN  IF conversion = Str("f_to_c") THEN
            IF ~IsNumber(value) THEN Raised
            ELSE IF value.k = "inf" THEN Coerced(Inf)
            ELSE Coerced(F(RDiv(RMul(RSub(NumQ(value), <<32, 1>>), <<5, 1>>),
                                <<9, 1>>)))
        ELSE IF conversion = Str("mph_to_kph") THEN
            IF ~IsNumber(value) THEN Raised
            ELSE IF value.k = "inf" THEN Coerced(Inf)
            ELSE Coerced(F(RMul(NumQ(value), <<160934, 100000>>)))
        ELSE Coerced(value)

(***************************************************************************)
(* The state document: a dict addressed by paths (sequences of keys).      *)
(***************************************************************************)
\* lines 467-474; the mutant descends only into a mapping that was already
\* there and writes the leaf one level too high after replacing one
RECURSIVE set_in_state_noDescend(_, _, _)
set_in_state_noDescend(state, parts, value) ==
    IF Len(parts) = 1 THEN Put(state, parts[1], value)
    ELSE IF parts[1] \notin DOMAIN state \/ ~IsDict(state[parts[1]])
         THEN set_in_state_noDescend(Put(state, parts[1], D(Empty)),
                                     Tail(parts), value)
         ELSE Put(state, parts[1],
                  D(set_in_state_noDescend(state[parts[1]].v, Tail(parts), value)))

RECURSIVE SetIn(_, _, _)
SetIn(state, parts, value) ==
    IF Len(parts) = 1 THEN Put(state, parts[1], value)
    ELSE LET current == IF parts[1] \notin DOMAIN state \/ ~IsDict(state[parts[1]])
                        THEN Empty
                        ELSE state[parts[1]].v
         IN  Put(state, parts[1], D(SetIn(current, Tail(parts), value)))

set_in_state(state, parts, value) == SetIn(state, parts, value)

\* lines 477-487: the document after "del", unchanged when the path is not
\* there (the function then returns False)
RECURSIVE delete_in_state(_, _)
delete_in_state(state, parts) ==
    IF Len(parts) = 1 THEN Remove(state, parts[1])
    ELSE IF parts[1] \notin DOMAIN state \/ ~IsDict(state[parts[1]]) THEN state
    ELSE Put(state, parts[1], D(delete_in_state(state[parts[1]].v, Tail(parts))))

\* whether a value is present at a path, and the value
RECURSIVE HasPath(_, _)
HasPath(state, parts) ==
    /\ parts[1] \in DOMAIN state
    /\ \/ Len(parts) = 1
       \/ IsDict(state[parts[1]]) /\ HasPath(state[parts[1]].v, Tail(parts))

RECURSIVE ValueAt(_, _)
ValueAt(state, parts) ==
    IF Len(parts) = 1 THEN state[parts[1]]
    ELSE ValueAt(state[parts[1]].v, Tail(parts))

\* what a reader of the document finds at a path: the value, or nothing
Lookup(state, parts) ==
    IF HasPath(state, parts) THEN <<ValueAt(state, parts)>> ELSE <<>>

(***************************************************************************)
(* merge_state and the default template                                    *)
(***************************************************************************)
\* lines 119-135; the mutant merges the top level only: a stored value
\* replaces the default's whole subtree
merge_state_shallow(default, current) ==
    IF IsDict(default) THEN
        IF ~IsDict(current) THEN default
        ELSE D([key \in (DOMAIN default.v) \cup (DOMAIN current.v) |->
                  IF key \in DOMAIN current.v THEN current.v[key]
                  ELSE default.v[key]])
    ELSE IF current = Null THEN default
    ELSE current

RECURSIVE merge_state(_, _)
merge_state(default, current) ==
    IF IsDict(default) THEN
        IF ~IsDict(current) THEN default
        ELSE D([key \in (DOMAIN default.v) \cup (DOMAIN current.v) |->
                  IF key \in DOMAIN default.v
                  THEN IF key \in DOMAIN current.v
                       THEN merge_state(default.v[key], current.v[key])
                       ELSE default.v[key]
                  ELSE current.v[key]])
    ELSE IF current = Null THEN default
    ELSE current

\* lines 19-35
DEFAULT_STATE ==
    D([units |-> D([system |-> Str("metric")]),
       ac |-> D([power |-> B(FALSE), temperature_c |-> I(22)]),
       seat_heating |-> D([driver_level |-> I(0), passenger_level |-> I(0)]),
       seat_cooling |-> D([driver_level |-> I(0), passenger_level |-> I(0)]),
       tacc |-> D([enabled |-> B(FALSE), car_speed_kph |-> I(88),
                   follow_distance |-> I(2)]),
       wipers |-> D([mode |-> Str("auto"), frequency_level |-> I(1)]),
       infotainment |-> D([power |-> B(TRUE), volume |-> I(18),
                           active_app |-> Str("Radio"),
                           radio_band |-> Str("FM"),
                           bluetooth_connected |-> B(FALSE),
                           screencast_active |-> B(FALSE),
                           local_game |-> S(<<"Elden Ring">>)])])

(***************************************************************************)
(* Files.  A file is missing, holds text that is no JSON, or holds a JSON   *)
(* value.                                                                  *)
(***************************************************************************)
Missing == [k |-> "missing"]
Garbage == [k |-> "garbage"]

\* lines 93-99
read_json(file, default) ==
    IF file \in {Missing, Garbage} THEN default ELSE file

\* lines 106-110
load_controls(file) ==
    LET data == read_json(file, D([controls |-> L(<<>>)]))
    IN  IF ~IsDict(data) \/ "controls" \notin DOMAIN data.v
        THEN D([controls |-> L(<<>>)])
        ELSE data

\* "for control in controls.get("controls", [])": the items of a list; a
\* string yields its characters and a mapping its keys, which are strings;
\* None and numbers are not iterable (TypeError)
RECURSIVE KeysOf(_)
KeysOf(keys) ==
    IF keys = {} THEN <<>>
    ELSE LET key == CHOOSE x \in keys : TRUE
         IN  <<Str(key)>> \o KeysOf(keys \ {key})

CatalogItems(controls) ==
    LET listed == Get(controls.v, "controls", L(<<>>))
    IN  CASE listed.k = "list" -> [ret |-> "ok", items |-> listed.v]
          [] listed.k = "str" ->
                [ret |-> "ok",
                 items |-> IF listed.v = <<"">> THEN <<>> ELSE <<listed>>]
          [] listed.k = "dict" ->
                [ret |-> "ok", items |-> KeysOf(DOMAIN listed.v)]
          [] OTHER -> [ret |-> "raise", items |-> <<>>]

\* lines 150-153: control.get raises AttributeError unless control is a
\* mapping; a later entry with the same path replaces the earlier one
RECURSIVE IndexItems(_, _)
IndexItems(items, mapping) ==
    IF items = <<>> THEN [ret |-> "ok", map |-> mapping]
    ELSE IF ~IsDict(Head(items)) THEN [ret |-> "raise", map |-> mapping]
    ELSE LET control == Head(items).v
             path == Get(control, "path", Null)
         IN  IndexItems(Tail(items),
                        IF IsStr(path) THEN Put(mapping, path.v, control)
                        ELSE mapping)

\* lines 148-154
build_control_map(controls) ==
    LET listed == CatalogItems(controls)
    IN  IF listed.ret = "raise" THEN [ret |-> "raise", map |-> Empty]
        ELSE IndexItems(listed.items, Empty)

(***************************************************************************)
(* apply_update                                                            *)
(***************************************************************************)
\* An update payload is an ordered mapping: [k |-> "odict", v |-> the
\* sequence of its <<key, value>> items in iteration order].
OD(items) == [k |-> "odict", v |-> items]

\* lines 456-464
RECURSIVE flatten_update(_, _)
flatten_update(items, prefix) ==
    IF items = <<>> THEN <<>>
    ELSE LET key == Head(items)[1]
             value == Head(items)[2]
             path == Append(prefix, key)
         IN  (IF value.k = "odict" THEN flatten_update(value.v, path)
              ELSE << <<path, value>> >>)
             \o flatten_update(Tail(items), prefix)

\* line 509: "if normalized is None"; the mutant tests "if not normalized"
IsRejection_falsy(normalized) == Falsy(normalized)
IsRejection(normalized) == normalized = Null

\* lines 509-511: skip a rejected value, convert an accepted one
ConvertUnlessRejected(control, normalized) ==
    IF normalized.ret = "raise" THEN Raised
    ELSE IF IsRejection(normalized.val) THEN Rejected
    ELSE apply_conversion(control, normalized.val)

\* the mutant of lines 508-511 converts the raw value and normalizes the result
NormalizeUnlessRaised(control, converted) ==
    IF converted.ret = "raise" THEN Raised
    ELSE normalize_value(control, converted.val)

SkipRejected(normalized) ==
    IF normalized.ret = "raise" THEN Raised
    ELSE IF IsRejection(normalized.val) THEN Rejected
    ELSE normalized

NormalizeThenConvert_swapped(control, value) ==
    SkipRejected(NormalizeUnlessRaised(control, apply_conversion(control, value)))

\* lines 508-511: normalize, then convert
NormalizeThenConvert(control, value) ==
    ConvertUnlessRejected(control, normalize_value(control, value))

\* lines 512-515: round an int descriptor's float, choose the target, write.
\* round() of an infinite float raises OverflowError; str.split on a maps_to
\* that is no string raises AttributeError.
LeafOutcome(control, converted, target_path) ==
    IF converted.ret = "raise"
    THEN [ret |-> "raise", target |-> <<>>, val |-> Null]
    ELSE IF converted.ret = "reject"
    THEN [ret |-> "skip", target |-> <<>>, val |-> Null]
    ELSE IF Get(control, "value_type", Null) = Str("int") /\ converted.val.k = "inf"
    THEN [ret |-> "raise", target |-> <<>>, val |-> Null]
    ELSE IF ~IsStr(target_path)
    THEN [ret |-> "raise", target |-> <<>>, val |-> Null]
    ELSE [ret |-> "write", target |-> target_path.v,
          val |-> IF Get(control, "value_type", Null) = Str("int")
                     /\ converted.val.k = "float"
                  THEN I(Round(converted.val.v))
                  ELSE converted.val]

\* lines 505-515 for one leaf: what the loop body does with <<path, value>>
\* when the index holds control at path: skip, write val at target, or raise
LeafWrite(control, path, value) ==
    LeafOutcome(control, NormalizeThenConvert(control, value),
                Get(control, "maps_to", S(path)))

\* line 505: CONTROL_MAP.get(path); the mutant falls back on a descriptor of
\* the path itself instead of None
ControlFor_default(index, path) ==
    IF path \in DOMAIN index THEN D(index[path]) ELSE D([path |-> S(path)])
ControlFor(index, path) ==
    IF path \in DOMAIN index THEN D(index[path]) ELSE Null

\* lines 504-515: the loop over the flattened pairs.  The document is
\* mutated in place, so a raise leaves the writes made so far.
RECURSIVE ApplyLeaves(_, _, _)

AfterLeaf(state, rest, index, leaf) ==
    CASE leaf.ret = "skip" -> ApplyLeaves(state, rest, index)
      [] leaf.ret = "raise" -> [ret |-> "raise", state |-> state]
      [] leaf.ret = "write" ->
            ApplyLeaves(set_in_state(state, leaf.target, leaf.val), rest, index)

\* lines 506-515 for one pair, control being what the index gave for its path
ApplyLeaf(state, updates, index, control) ==
    IF Falsy(control) THEN ApplyLeaves(state, Tail(updates), index)
    ELSE AfterLeaf(state, Tail(updates), index,
                   LeafWrite(control.v, Head(updates)[1], Head(updates)[2]))

ApplyLeaves(state, updates, index) ==
    IF updates = <<>> THEN [ret |-> "ok", state |-> state]
    ELSE ApplyLeaf(state, updates, index, ControlFor(index, Head(updates)[1]))

\* lines 494-498 for one descriptor: "if path and maps_to"
PrunesPath(control) ==
    /\ ~Falsy(Get(control, "path", Null))
    /\ ~Falsy(Get(control, "maps_to", Null))

\* lines 494-498
RECURSIVE PruneLoop(_, _)
PruneLoop(state, items) ==
    IF items = <<>> THEN [ret |-> "ok", state |-> state]
    ELSE IF ~IsDict(Head(items)) THEN [ret |-> "raise", state |-> state]
    ELSE IF ~PrunesPath(Head(items).v) THEN PruneLoop(state, Tail(items))
    ELSE IF ~IsStr(Head(items).v["path"]) THEN [ret |-> "raise", state |-> state]
    ELSE PruneLoop(delete_in_state(state, Head(items).v["path"].v), Tail(items))

\* lines 490-499
prune_mapped_state_entries(state, controls) ==
    LET listed == CatalogItems(controls)
    IN  IF listed.ret = "raise" THEN [ret |-> "raise", state |-> state]
        ELSE PruneLoop(state, listed.items)

\* line 516, unless the loop raised
PruneUnlessRaised(applied, controls) ==
    IF applied.ret = "raise" THEN applied
    ELSE prune_mapped_state_entries(applied.state, controls)

\* lines 502-518, up to the write to storage: the outcome and the document
apply_update(state, update, index, controls) ==
    PruneUnlessRaised(ApplyLeaves(state, flatten_update(update.v, <<>>), index),
                      controls)

\* lines 138-145: the document loaded and what the file holds afterwards
load_state(file) ==
    LET read == read_json(file, DEFAULT_STATE)
        data == IF IsDict(read) THEN read ELSE D(Empty)
        merged == merge_state(DEFAULT_STATE, data)
    IN  [state |-> merged, file |-> IF merged # data THEN merged ELSE file]

(***************************************************************************)
(* The server                                                              *)
(***************************************************************************)
VARIABLES
    controlsFile,   \* controls.json
    stateFile,      \* state.json
    CONTROLS,       \* the control catalog (line 521)
    CONTROL_MAP,    \* the control index (line 522)
    State,          \* the state document STATE (line 539)
    last,           \* the request that was served last
    probe           \* what the last operation was given and what it returned;
                    \* with two requests in flight, where each of them stands

vars == <<controlsFile, stateFile, CONTROLS, CONTROL_MAP, State, last, probe>>

\* the longest catalog
MaxControls == 2

\* Descriptors of the catalogs: int inputs over the paths ac, ac.power and
\* alias, with and without maps_to, and two malformed ones.
IntInput(path, more) ==
    D([f \in {"path", "value_type"} \cup DOMAIN more |->
         IF f = "path" THEN path
         ELSE IF f = "value_type" THEN Str("int")
         ELSE more[f]])

DescriptorPool ==
    { IntInput(S(<<"ac", "power">>), Empty),
      IntInput(Str("ac"), Empty),
      IntInput(Str("alias"), [maps_to |-> S(<<"ac", "power">>)]),
      IntInput(Str("ac"), [maps_to |-> Str("alias")]),
      IntInput(Str("ac"), [maps_to |-> S(<<"ac", "power">>)]),
      IntInput(Str("alias"), [maps_to |-> Null]),
      IntInput(I(5), [maps_to |-> Str("alias")]) }

RECURSIVE SeqsUpTo(_, _)
SeqsUpTo(pool, n) ==
    IF n = 0 THEN {<<>>}
    ELSE LET shorter == SeqsUpTo(pool, n - 1)
         IN  shorter \cup {Append(s, x) : s \in shorter, x \in pool}

ControlFiles ==
    {D([controls |-> L(items)]) : items \in SeqsUpTo(DescriptorPool, MaxControls)}

StateFiles ==
    {Missing, D([alias |-> I(7), ac |-> D([power |-> Null])])}

\* Update payloads: one or two leaves at ac, ac.power and alias; of two
\* leaves, the second is accepted or the first is
LeafValues == {I(0), I(1), Str("abc"), Inf}
LeafPairs ==
    {<<x, I(1)>> : x \in LeafValues} \cup {<<I(0), y>> : y \in {Str("abc"), Inf}}

Payloads ==
    {OD(<<>>)}
    \cup {OD(<< <<"ac", x>> >>) : x \in LeafValues}
    \cup {OD(<< <<"alias", x>> >>) : x \in LeafValues}
    \cup {OD(<< <<"ac", OD(<< <<"power", x>> >>)>> >>) : x \in LeafValues}
    \cup {OD(<< <<"alias", p[1]>>, <<"ac", p[2]>> >>) : p \in LeafPairs}
    \cup {OD(<< <<"ac", p[1]>>, <<"alias", p[2]>> >>) : p \in LeafPairs}
    \cup {OD(<< <<"alias", p[1]>>, <<"ac", OD(<< <<"power", p[2]>> >>)>> >>) :
            p \in LeafPairs}
    \cup {OD(<< <<"ac", OD(<< <<"power", p[1]>> >>)>>, <<"alias", p[2]>> >>) :
            p \in LeafPairs}

\* line 607-609: a body that is no JSON object counts as an empty update
Bodies == Payloads \cup {Null}

Served(op, raised, update) ==
    [op |-> op, raised |-> raised, update |-> update]

\* lines 521-522 and 539-541: the module is imported without an exception
Init ==
    \E cf \in ControlFiles, sf \in StateFiles :
        LET controls == load_controls(cf)
            built == build_control_map(controls)
            loaded == load_state(sf)
            pruned == prune_mapped_state_entries(loaded.state.v, controls)
        IN  /\ built.ret = "ok"
            /\ pruned.ret = "ok"
            /\ controlsFile = cf
            /\ CONTROLS = controls
            /\ CONTROL_MAP = built.map
            /\ State = pruned.state
            /\ stateFile = IF pruned.state # loaded.state.v
                           THEN D(pruned.state) ELSE loaded.file
            /\ last = Served("start", FALSE, OD(<<>>))
            /\ probe = <<>>

\* lines 517-518: the document is written to storage unless apply_update raised
Persist(update, applied) ==
    /\ State' = applied.state
    /\ stateFile' = IF applied.ret = "ok" THEN D(applied.state) ELSE stateFile
    /\ last' = Served("apply", applied.ret = "raise", update)

\* line 116, then the handler's call of apply_update
Rebuild(update, controls, built) ==
    IF built.ret = "raise"
    THEN /\ UNCHANGED <<CONTROL_MAP, State, stateFile>>
         /\ last' = Served("refresh", TRUE, update)
    ELSE /\ CONTROL_MAP' = built.map
         /\ Persist(update, apply_update(State, update, built.map, controls))

\* line 115: refresh_controls assigns CONTROLS before build_control_map can raise
Reload(update, controls) ==
    /\ CONTROLS' = controls
    /\ Rebuild(update, controls, build_control_map(controls))
    /\ UNCHANGED controlsFile

\* lines 113-116 followed by apply_update (lines 502-518)
RefreshAndApply(update) ==
    Reload(update, load_controls(controlsFile)) /\ UNCHANGED probe

\* lines 602-611: POST /api/state
UpdateState ==
    \E body \in Bodies :
        RefreshAndApply(IF body.k = "odict" THEN body ELSE OD(<<>>))

\* lines 625-699: POST /api/assistant, when the provider answers with a
\* non-empty "updates" object
Assistant ==
    \E updates \in Payloads \ {OD(<<>>)} : RefreshAndApply(updates)

\* lines 586-589, and lines 604-606 and 627-629 when the request is not
\* authorized: the catalog is refreshed and nothing else happens
GetControls ==
    LET controls == load_controls(controlsFile)
        built == build_control_map(controls)
    IN  /\ CONTROLS' = controls
        /\ CONTROL_MAP' = IF built.ret = "ok" THEN built.map ELSE CONTROL_MAP
        /\ last' = Served("controls", built.ret = "raise", OD(<<>>))
        /\ UNCHANGED <<controlsFile, stateFile, State, probe>>

\* lines 614-622: POST /api/reset
ResetState ==
    /\ State' = DEFAULT_STATE.v
    /\ stateFile' = DEFAULT_STATE
    /\ last' = Served("reset", FALSE, OD(<<>>))
    /\ UNCHANGED <<controlsFile, CONTROLS, CONTROL_MAP, probe>>

Next == UpdateState \/ Assistant \/ GetControls \/ ResetState

Spec == Init /\ [][Next]_vars

(***************************************************************************)
(* What the claims speak of: the leaves of an update and their outcomes    *)
(***************************************************************************)
IsPrefix(p, q) == Len(p) <= Len(q) /\ SubSeq(q, 1, Len(p)) = p
Overlap(p, q) == IsPrefix(p, q) \/ IsPrefix(q, p)

LeavesOf(update) == flatten_update(update.v, <<>>)

\* whether leaf i of the update has a descriptor, and what the loop does with it
KnownLeaf(index, leaves, i) == leaves[i][1] \in DOMAIN index
OutcomeOf(index, leaves, i) ==
    LeafWrite(index[leaves[i][1]], leaves[i][1], leaves[i][2])
WritesLeaf(index, leaves, i) ==
    KnownLeaf(index, leaves, i) /\ OutcomeOf(index, leaves, i).ret = "write"

\* the paths that pruning deletes
PrunedPaths(controls) ==
    {c.v["path"].v : c \in {x \in Range(controls.v["controls"].v) :
                               IsDict(x) /\ PrunesPath(x.v) /\ IsStr(x.v["path"])}}

\* nothing else of the update or of pruning touches the path
Undisturbed(index, controls, leaves, i, path) ==
    /\ \A j \in 1..Len(leaves) :
          j # i /\ WritesLeaf(index, leaves, j)
          => ~Overlap(OutcomeOf(index, leaves, j).target, path)
    /\ \A q \in PrunedPaths(controls) : ~Overlap(q, path)

\* C1: apply_update never raises, whatever the catalog, the state document
\* and the payload are
C1_NeverRaises == last.op = "apply" => ~last.raised

\* C3: a value accepted for a descriptor with a maps_to is, after the update,
\* at the maps_to location and not at the descriptor's path
\* (stated for the leaves no later leaf of the same update overwrites, and
\* for a maps_to that does not lie at or under the descriptor's own path)
C3_MappedValueKept ==
    last.op = "apply" /\ ~last.raised =>
        LET leaves == LeavesOf(last.update)
        IN  \A i \in 1..Len(leaves) :
                LET path == leaves[i][1]
                    out == OutcomeOf(CONTROL_MAP, leaves, i)
                IN  ( /\ WritesLeaf(CONTROL_MAP, leaves, i)
                      /\ "maps_to" \in DOMAIN CONTROL_MAP[path]
                      /\ ~IsPrefix(path, out.target)
                      /\ \A j \in (i + 1)..Len(leaves) :
                            WritesLeaf(CONTROL_MAP, leaves, j)
                            => ~Overlap(OutcomeOf(CONTROL_MAP, leaves, j).target,
                                        out.target) )
                    => /\ Lookup(State, out.target) = <<out.val>>
                       /\ Lookup(State, path) = <<>>

(***************************************************************************)
(* The catalog source under edit: controls.json is rewritten by hand       *)
(* between requests, and GET /api/controls rebuilds catalog and index.     *)
(***************************************************************************)
\* the longest "controls" list of an edited source
MaxEntries == 2

\* entries of an edited source: no mappings, mappings without a string path,
\* and descriptors
EntryPool ==
    { I(5), Str("x"), Null, D(Empty),
      IntInput(I(5), Empty),
      IntInput(Str("ac"), Empty),
      IntInput(S(<<"ac", "power">>), Empty),
      IntInput(Str("ac"), [maps_to |-> Str("alias")]) }

CatalogSources ==
    { Missing, Garbage, L(<<I(1)>>), D([x |-> I(1)]),
      D([controls |-> Null]), D([controls |-> I(3)]),
      D([controls |-> Str("ab")]), D([controls |-> D(Empty)]) }
    \cup {D([controls |-> L(items)]) : items \in SeqsUpTo(EntryPool, MaxEntries)}

\* the server is up, started without a catalog
CatalogInit ==
    /\ controlsFile = Missing
    /\ CONTROLS = load_controls(Missing)
    /\ CONTROL_MAP = build_control_map(load_controls(Missing)).map
    /\ State = load_state(Missing).state.v
    /\ stateFile = load_state(Missing).file
    /\ last = Served("start", FALSE, OD(<<>>))
    /\ probe = <<>>

\* controls.json is rewritten
EditControls ==
    \E source \in CatalogSources :
        /\ controlsFile' = source
        /\ last' = Served("edit", FALSE, OD(<<>>))
        /\ UNCHANGED <<stateFile, CONTROLS, CONTROL_MAP, State, probe>>

CatalogNext == EditControls \/ GetControls

CatalogSpec == CatalogInit /\ [][CatalogNext]_vars

\* the "controls" sequence of a source that is structured as expected
SourceEntries(file) ==
    IF file \notin {Missing, Garbage} /\ IsDict(file)
       /\ "controls" \in DOMAIN file.v /\ file.v["controls"].k = "list"
    THEN file.v["controls"].v
    ELSE <<>>

HasStringPath(entry) ==
    IsDict(entry) /\ "path" \in DOMAIN entry.v /\ IsStr(entry.v["path"])

\* C2: load_controls followed by build_control_map never raises; the index
\* holds exactly the entries with a string path (the last one for each
\* path), which is none for a source that is not structured as expected
C2_CatalogTotal ==
    last.op = "controls" =>
        LET entries == SourceEntries(controlsFile)
        IN  /\ ~last.raised
            /\ DOMAIN CONTROL_MAP =
                  {entries[i].v["path"].v :
                     i \in {j \in DOMAIN entries : HasStringPath(entries[j])}}
            /\ \A i \in DOMAIN entries :
                  ( /\ HasStringPath(entries[i])
                    /\ \A j \in (i + 1)..Len(entries) :
                          HasStringPath(entries[j])
                          => entries[j].v["path"] # entries[i].v["path"] )
                  => CONTROL_MAP[entries[i].v["path"].v] = entries[i].v

(***************************************************************************)
(* Fail-soft application                                                   *)
(***************************************************************************)
\* a value that int() does not take
NotAnInt(value) ==
    /\ value.k \notin {"bool", "int", "float"}
    /\ ~(value.k = "str" /\ IsNumeral(value.v))

\* leaf i is bad: its descriptor is an int descriptor and its value no int
BadLeaf(index, leaves, i) ==
    /\ KnownLeaf(index, leaves, i)
    /\ Get(index[leaves[i][1]], "value_type", Null) = Str("int")
    /\ NotAnInt(leaves[i][2])

\* the descriptor of leaf i writes at its path or at a maps_to that is a path
PlainTarget(index, leaves, i) ==
    IsStr(Get(index[leaves[i][1]], "maps_to", S(leaves[i][1])))

\* one request applied `served.update` and took the document from before to after
FailSoft(before, after, served, index, controls) ==
    LET leaves == LeavesOf(served.update)
        at == 1..Len(leaves)
    IN  ( /\ Len(leaves) >= 2
          /\ \E i \in at : BadLeaf(index, leaves, i)
          /\ \E i \in at : WritesLeaf(index, leaves, i)
          /\ \A i \in at :
                KnownLeaf(index, leaves, i)
                => /\ PlainTarget(index, leaves, i)
                   /\ BadLeaf(index, leaves, i) \/ WritesLeaf(index, leaves, i) )
        => /\ ~served.raised
           /\ \A i \in at :
                 ( /\ BadLeaf(index, leaves, i)
                   /\ Undisturbed(index, controls, leaves, i, leaves[i][1]) )
                 => Lookup(after, leaves[i][1]) = Lookup(before, leaves[i][1])
           /\ \A i \in at :
                 ( /\ WritesLeaf(index, leaves, i)
                   /\ Undisturbed(index, controls, leaves, i,
                                  OutcomeOf(index, leaves, i).target) )
                 => Lookup(after, OutcomeOf(index, leaves, i).target)
                      = <<OutcomeOf(index, leaves, i).val>>

\* C7: in a payload of several leaves, a leaf whose value is not coercible
\* leaves the document as it was at its path, every accepted leaf is written,
\* and the update is not aborted (stated for the paths that no other leaf and
\* no pruning touches)
C7_FailSoft ==
    [][last'.op = "apply" => FailSoft(State, State', last', CONTROL_MAP', CONTROLS')]_vars

(***************************************************************************)
(* apply_update by itself: one catalog, one document, and the same update  *)
(* applied twice.  The document need not be pruned for the catalog: the    *)
(* catalog is reloaded on every request and POST /api/reset does not prune.*)
(***************************************************************************)
StartDocs ==
    { DEFAULT_STATE.v,
      load_state(D([alias |-> I(7), ac |-> D([power |-> Null])])).state.v,
      Put(DEFAULT_STATE.v, "ac", I(0)),
      Put(Remove(DEFAULT_STATE.v, "ac"), "alias", D([x |-> I(1)])) }

\* probe.docs: the documents before each apply_update made so far
ApplyInit ==
    \E cf \in ControlFiles, doc \in StartDocs :
        /\ build_control_map(load_controls(cf)).ret = "ok"
        /\ controlsFile = cf
        /\ CONTROLS = load_controls(cf)
        /\ CONTROL_MAP = build_control_map(load_controls(cf)).map
        /\ State = doc
        /\ stateFile = D(doc)
        /\ last = Served("start", FALSE, OD(<<>>))
        /\ probe = [phase |-> "start", docs |-> <<>>]

\* lines 502-518 on the server's catalog, index and document
ApplyTo(update, phase) ==
    /\ Persist(update, apply_update(State, update, CONTROL_MAP, CONTROLS))
    /\ probe' = [phase |-> phase, docs |-> Append(probe.docs, State)]
    /\ UNCHANGED <<controlsFile, CONTROLS, CONTROL_MAP>>

ApplyOnce ==
    /\ probe.phase = "start"
    /\ \E update \in Payloads : ApplyTo(update, "once")

ApplyAgain ==
    /\ probe.phase = "once"
    /\ ApplyTo(last.update, "twice")

ApplyNext == ApplyOnce \/ ApplyAgain

ApplySpec == ApplyInit /\ [][ApplyNext]_vars

\* the leaves whose path the index knows
KnownLeaves(index, leaves) ==
    SelectSeq(leaves, LAMBDA leaf : leaf[1] \in DOMAIN index)

\* C4 as stated: after apply_update the document holds at every unknown path
\* of the payload what it held before, whatever the other leaves and pruning
\* do (stated for the updates that do not raise)
C4_UnknownPathUnchanged ==
    (probe.phase = "once" /\ ~last.raised) =>
        LET leaves == LeavesOf(last.update)
        IN  \A i \in 1..Len(leaves) :
                ~KnownLeaf(CONTROL_MAP, leaves, i)
                => Lookup(State, leaves[i][1]) = Lookup(probe.docs[1], leaves[i][1])

\* C4 as amended: a leaf at an unknown path is skipped: the update has the
\* outcome and the document of the update without its unknown leaves, and the
\* document holds at the unknown path what it held before unless another
\* leaf is written at, above or below that path or pruning deletes there
C4_UnknownLeafSkipped ==
    probe.phase = "once" =>
        LET leaves == LeavesOf(last.update)
            without == PruneUnlessRaised(
                           ApplyLeaves(probe.docs[1],
                                       KnownLeaves(CONTROL_MAP, leaves),
                                       CONTROL_MAP),
                           CONTROLS)
        IN  /\ State = without.state
            /\ last.raised <=> without.ret = "raise"
            /\ \A i \in 1..Len(leaves) :
                  ( /\ ~KnownLeaf(CONTROL_MAP, leaves, i)
                    /\ Undisturbed(CONTROL_MAP, CONTROLS, leaves, i, leaves[i][1]) )
                  => Lookup(State, leaves[i][1])
                       = Lookup(probe.docs[1], leaves[i][1])

\* an update with an unknown leaf and an accepted one, which changed the
\* document
C4_Witness ==
    /\ probe.phase = "once"
    /\ ~last.raised
    /\ State # probe.docs[1]
    /\ \E i \in 1..Len(LeavesOf(last.update)) :
          /\ ~KnownLeaf(CONTROL_MAP, LeavesOf(last.update), i)
          /\ Undisturbed(CONTROL_MAP, CONTROLS, LeavesOf(last.update), i,
                         LeavesOf(last.update)[i][1])
          /\ Lookup(State, LeavesOf(last.update)[i][1]) # <<>>
    /\ \E j \in 1..Len(LeavesOf(last.update)) :
          WritesLeaf(CONTROL_MAP, LeavesOf(last.update), j)

\* C6: applying the same update a second time leaves the document as the
\* first application left it
C6_ReapplyIdempotent ==
    probe.phase = "twice" => State = probe.docs[2]

\* the update applied twice wrote two leaves, one through a maps_to, at
\* targets of which one is a prefix of the other, and changed the document
C6_Witness ==
    /\ probe.phase = "twice"
    /\ ~last.raised
    /\ State # probe.docs[1]
    /\ \E i, j \in 1..Len(LeavesOf(last.update)) :
          /\ i # j
          /\ WritesLeaf(CONTROL_MAP, LeavesOf(last.update), i)
          /\ WritesLeaf(CONTROL_MAP, LeavesOf(last.update), j)
          /\ "maps_to" \in DOMAIN CONTROL_MAP[LeavesOf(last.update)[i][1]]
          /\ OutcomeOf(CONTROL_MAP, LeavesOf(last.update), i).target
               # OutcomeOf(CONTROL_MAP, LeavesOf(last.update), j).target
          /\ Overlap(OutcomeOf(CONTROL_MAP, LeavesOf(last.update), i).target,
                     OutcomeOf(CONTROL_MAP, LeavesOf(last.update), j).target)

(***************************************************************************)
(* Startup: the stored document is read and merged into the template       *)
(***************************************************************************)
\* the largest number stored for ac.temperature_c
MaxScalar == 1

\* stored "ac" sections: fields missing, null, set, or a mapping where the
\* template has a scalar
AcSections ==
    {D(Strip([power |-> p, temperature_c |-> t])) :
        p \in {Absent, Null, B(TRUE), D([x |-> I(1)])},
        t \in {Absent, Null} \cup {I(n) : n \in 0..MaxScalar}}

\* stored documents: sections missing, null or a scalar, and a field "alias"
\* that the template does not know
StoredDocs ==
    {D(Strip([ac |-> a, units |-> u, alias |-> x])) :
        a \in {Absent, Null, I(5)} \cup AcSections,
        u \in {Absent, I(0)},
        x \in {Absent, Null, I(7), D([x |-> Null])}}

StoredFiles == {Missing, Garbage, L(<<>>)} \cup StoredDocs

\* lines 521-522 have run, without a catalog; line 539 has not
MergeInit ==
    /\ stateFile \in StoredFiles
    /\ controlsFile = Missing
    /\ CONTROLS = load_controls(Missing)
    /\ CONTROL_MAP = build_control_map(load_controls(Missing)).map
    /\ State = Empty
    /\ last = Served("import", FALSE, OD(<<>>))
    /\ probe = <<>>

\* lines 139-141: what load_state merges into the template
StoredData(file) ==
    IF IsDict(read_json(file, DEFAULT_STATE)) THEN read_json(file, DEFAULT_STATE)
    ELSE D(Empty)

\* lines 540-541
PruneAtStart(loaded, pruned) ==
    /\ State' = pruned.state
    /\ stateFile' = IF pruned.state # loaded.state.v THEN D(pruned.state)
                    ELSE loaded.file

\* lines 539-541
LoadState ==
    /\ last.op = "import"
    /\ PruneAtStart(load_state(stateFile),
                    prune_mapped_state_entries(load_state(stateFile).state.v,
                                               CONTROLS))
    /\ last' = Served("load", FALSE, OD(<<>>))
    /\ probe' = [stored |-> StoredData(stateFile)]
    /\ UNCHANGED <<controlsFile, CONTROLS, CONTROL_MAP>>

MergeNext == LoadState

MergeSpec == MergeInit /\ [][MergeNext]_vars

\* the paths of a document, to mappings and to leaves
RECURSIVE PathsOf(_)
PathsOf(f) ==
    UNION {{<<key>>} \cup (IF IsDict(f[key])
                           THEN {<<key>> \o q : q \in PathsOf(f[key].v)}
                           ELSE {}) : key \in DOMAIN f}

LeafPathsOf(f) == {q \in PathsOf(f) : ~IsDict(ValueAt(f, q))}

\* C5 as stated: the merged document holds every template field missing from
\* the stored document, and every leaf of the stored document with exactly
\* its stored value
C5_StoredLeavesKept ==
    last.op = "load" =>
        /\ \A q \in PathsOf(DEFAULT_STATE.v) :
              Lookup(probe.stored.v, q) = <<>>
              => Lookup(State, q) = Lookup(DEFAULT_STATE.v, q)
        /\ \A q \in LeafPathsOf(probe.stored.v) :
              Lookup(State, q) = Lookup(probe.stored.v, q)

\* what the merged document holds at a path of the stored document, the
\* template holding there `default` (nothing, or one value)
KeptOrDefault(stored, default) ==
    IF default = <<>> THEN <<stored>>
    ELSE IF IsDict(default[1]) /\ ~IsDict(stored) THEN default
    ELSE IF stored = Null THEN default
    ELSE <<stored>>

\* C5 as amended: the merged document holds every template field missing
\* from the stored document with its default, and every stored leaf with its
\* stored value, except that a stored null at a position the template
\* defines is replaced by the template's value and a stored value that is no
\* mapping, at a position where the template has a mapping, by the template's
\* mapping; stored fields the template does not know are kept
C5_MergeKeeps ==
    last.op = "load" =>
        /\ \A q \in PathsOf(DEFAULT_STATE.v) :
              Lookup(probe.stored.v, q) = <<>>
              => Lookup(State, q) = Lookup(DEFAULT_STATE.v, q)
        /\ \A q \in LeafPathsOf(probe.stored.v) :
              Lookup(State, q)
                = KeptOrDefault(ValueAt(probe.stored.v, q),
                                Lookup(DEFAULT_STATE.v, q))
        /\ \A q \in PathsOf(probe.stored.v) :
              Lookup(DEFAULT_STATE.v, q) = <<>>
              => Lookup(State, q) = Lookup(probe.stored.v, q)

\* a stored document with a set leaf, a missing template field, a null and
\* an unknown field has been loaded
C5_Witness ==
    /\ last.op = "load"
    /\ Lookup(probe.stored.v, <<"ac", "temperature_c">>) = <<I(1)>>
    /\ Lookup(probe.stored.v, <<"ac", "power">>) = <<Null>>
    /\ Lookup(probe.stored.v, <<"units">>) = <<>>
    /\ Lookup(probe.stored.v, <<"alias">>) = <<I(7)>>
    /\ Lookup(State, <<"ac", "temperature_c">>) = <<I(1)>>
    /\ Lookup(State, <<"ac", "power">>) = <<B(FALSE)>>
    /\ Lookup(State, <<"units", "system">>) = <<Str("metric")>>
    /\ Lookup(State, <<"alias">>) = <<I(7)>>

(***************************************************************************)
(* One descriptor in the catalog and updates of its path: normalization,   *)
(* conversion and the write.  Floats are exact rationals; the inputs and   *)
(* the bounds are integers and halves, on which Python computes exactly.   *)
(***************************************************************************)
Slider(value_type, min, max, step, conversion) ==
    Strip([path |-> S(<<"ac", "temperature_c">>), type |-> Str("slider"),
           value_type |-> Str(value_type), min |-> min, max |-> max,
           step |-> step, conversion |-> conversion])

SliderControls ==
    {Slider(vt, mn, mx, st, Absent) :
        vt \in {"int", "float"},
        mn \in {Absent, I(0), I(2), I(32)},
        mx \in {Absent, I(7), I(100), I(212)},
        st \in {Absent, I(0), I(2), I(5), F(<<1, 2>>)}}
    \cup {Slider(vt, I(32), I(212), st, Str("f_to_c")) :
            vt \in {"int", "float"},
            st \in {Absent, I(0), I(2), I(5), F(<<1, 2>>)}}

OtherControls ==
    { [path |-> S(<<"ac", "power">>), type |-> Str("toggle"),
       value_type |-> Str("bool")],
      [path |-> S(<<"infotainment", "volume">>), value_type |-> Str("int")],
      [path |-> S(<<"ac", "temperature_c">>), value_type |-> Str("float")],
      [path |-> S(<<"ac", "temperature_c">>), value_type |-> Str("float"),
       conversion |-> Str("f_to_c")],
      [path |-> S(<<"infotainment", "radio_band">>), type |-> Str("select"),
       value_type |-> Str("str"), values |-> L(<<Str("FM"), Str("AM")>>)],
      [path |-> S(<<"infotainment", "volume">>), type |-> Str("select"),
       value_type |-> Str("int"), values |-> L(<<I(0), I(1)>>)] }

NormControls == SliderControls \cup OtherControls

NormValues ==
    { I(-10), I(0), I(1), I(3), I(7), I(97), I(98), I(103), I(300),
      F(<<5, 2>>), F(<<7, 2>>), B(FALSE), B(TRUE),
      Str("0"), Str("97"), Str(" off "), Str("abc"), Str("FM"), Str("XM"),
      Null, Inf, L(<<>>) }

\* the nested payload that flattens to one leaf at the path
RECURSIVE PayloadAt(_, _)
PayloadAt(parts, value) ==
    IF Len(parts) = 1 THEN OD(<< <<parts[1], value>> >>)
    ELSE OD(<< <<parts[1], PayloadAt(Tail(parts), value)>> >>)

\* lines 521-522 and 539-541, the catalog holding one descriptor
NormInit ==
    \E control \in NormControls :
        /\ controlsFile = D([controls |-> L(<<D(control)>>)])
        /\ CONTROLS = load_controls(controlsFile)
        /\ CONTROL_MAP = build_control_map(load_controls(controlsFile)).map
        /\ State = load_state(Missing).state.v
        /\ stateFile = load_state(Missing).file
        /\ last = Served("start", FALSE, OD(<<>>))
        /\ probe = <<>>

\* POST /api/state with a value for the descriptor's path (lines 602-611);
\* probe keeps what normalize_value returns for it (line 508)
NormUpdateOf(control, value) ==
    /\ Reload(PayloadAt(control["path"].v, value), load_controls(controlsFile))
    /\ probe' = [control |-> control, value |-> value,
                 normalized |-> normalize_value(control, value)]

NormUpdate ==
    \E value \in NormValues :
        NormUpdateOf(CONTROLS.v["controls"].v[1].v, value)

NormNext == NormUpdate

NormSpec == NormInit /\ [][NormNext]_vars

\* the number that int() or float() makes of a value, where it makes one
TakesNumber(value_type, value) ==
    \/ value.k \in {"bool", "int", "float"}
    \/ value.k = "str" /\ IsNumeral(value.v)

NumberOf(value_type, value) ==
    IF value.k = "str" THEN <<ParseInt(value.v), 1>>
    ELSE IF value_type = Str("int") THEN <<Trunc(NumQ(value)), 1>>
    ELSE NumQ(value)

\* what the claim says a slider returns for the number c
ClampLow(control, c) ==
    IF "min" \in DOMAIN control /\ RLess(c, NumQ(control["min"]))
    THEN NumQ(control["min"]) ELSE c

ClampHigh(control, c) ==
    IF "max" \in DOMAIN control /\ RLess(NumQ(control["max"]), c)
    THEN NumQ(control["max"]) ELSE c

EffectiveMin(control) ==
    IF "min" \in DOMAIN control THEN NumQ(control["min"]) ELSE <<0, 1>>

EffectiveStep(control) ==
    IF "step" \in DOMAIN control /\ NumQ(control["step"]) # <<0, 1>>
    THEN NumQ(control["step"]) ELSE <<1, 1>>

Snapped(control, clamped) ==
    RAdd(EffectiveMin(control),
         RMul(<<Round(RDiv(RSub(clamped, EffectiveMin(control)),
                           EffectiveStep(control))), 1>>,
              EffectiveStep(control)))

SliderResult(control, c) ==
    IF control["value_type"] = Str("int")
    THEN <<Round(Snapped(control, ClampHigh(control, ClampLow(control, c)))), 1>>
    ELSE Snapped(control, ClampHigh(control, ClampLow(control, c)))

IsSlider(control) == Get(control, "type", Null) = Str("slider")

\* the request before this state applied a value the descriptor takes as a number
NumberApplied ==
    /\ last.op = "apply"
    /\ TakesNumber(probe.control["value_type"], probe.value)

\* C9: a slider clamps the coerced number into [min, max], snaps it to
\* min + round((clamped - min) / step) * step and rounds it for an int
\* descriptor; with min 0, max 100, step 5 the inputs 97, -10 and 103 give
\* 95, 0 and 100
C9_SliderClampSnap ==
    (NumberApplied /\ IsSlider(probe.control)) =>
        /\ probe.normalized.ret = "coerced"
        /\ IsNumber(probe.normalized.val)
        /\ NumQ(probe.normalized.val)
             = SliderResult(probe.control,
                            NumberOf(probe.control["value_type"], probe.value))
        /\ probe.control["value_type"] = Str("int")
           => probe.normalized.val.k = "int"
        /\ probe.control = Slider("int", I(0), I(100), I(5), Absent)
           => /\ probe.value = I(97) => probe.normalized.val = I(95)
              /\ probe.value = I(-10) => probe.normalized.val = I(0)
              /\ probe.value = I(103) => probe.normalized.val = I(100)

\* 97 has been normalized to 95 by the slider with min 0, max 100, step 5
C9_Witness ==
    /\ NumberApplied
    /\ probe.control = Slider("int", I(0), I(100), I(5), Absent)
    /\ probe.value = I(97)
    /\ probe.normalized = Coerced(I(95))

\* the value that the claim says is written: the converted one, rounded for
\* an int descriptor
Celsius(control, q) ==
    IF control["value_type"] = Str("int")
    THEN I(Round(RDiv(RMul(RSub(q, <<32, 1>>), <<5, 1>>), <<9, 1>>)))
    ELSE F(RDiv(RMul(RSub(q, <<32, 1>>), <<5, 1>>), <<9, 1>>))

\* C10: the conversion is applied to the normalized and clamped value: a
\* slider with f_to_c writes the conversion of the clamped and snapped
\* input, and with min 32 and max 212 the input 300 is written as 100
C10_ConvertAfterClamp ==
    ( /\ NumberApplied
      /\ IsSlider(probe.control)
      /\ Get(probe.control, "conversion", Null) = Str("f_to_c") )
    => /\ ~last.raised
       /\ Lookup(State, probe.control["path"].v)
            = <<Celsius(probe.control,
                        SliderResult(probe.control,
                                     NumberOf(probe.control["value_type"],
                                              probe.value)))>>
       /\ probe.value = I(300)
          => PyEq(ValueAt(State, probe.control["path"].v), I(100))

\* 300 has been applied to the slider with min 32, max 212 and f_to_c
C10_Witness ==
    /\ NumberApplied
    /\ probe.control = Slider("float", I(32), I(212), Absent, Str("f_to_c"))
    /\ probe.value = I(300)
    /\ probe.normalized.val = I(212)
    /\ Lookup(State, <<"ac", "temperature_c">>) = <<F(<<100, 1>>)>>

\* C8: normalize_value returns None only when it rejects; an accepted false
\* or 0 is written to the document, and a select value outside values is
\* rejected
C8_RejectionDistinct ==
    last.op = "apply" =>
        /\ probe.normalized.ret = "coerced" => probe.normalized.val # Null
        /\ ( /\ probe.normalized.ret = "coerced"
             /\ Falsy(probe.normalized.val)
             /\ "conversion" \notin DOMAIN probe.control )
           => /\ ~last.raised
              /\ Lookup(State, probe.control["path"].v) = <<probe.normalized.val>>
        /\ ( /\ Get(probe.control, "type", Null) = Str("select")
             /\ probe.control["values"] = L(<<Str("FM"), Str("AM")>>)
             /\ probe.value = Str("XM") )
           => probe.normalized = Rejected

\* a slider has clamped -10 to 0 and the 0 is in the document, where 22 was
C8_Witness ==
    /\ last.op = "apply"
    /\ probe.control = Slider("int", I(0), I(100), I(5), Absent)
    /\ probe.value = I(-10)
    /\ probe.normalized = Coerced(I(0))
    /\ Lookup(State, <<"ac", "temperature_c">>) = <<I(0)>>

\* the slider has numeric bounds with min <= max and a positive step
BoundedSlider(control) ==
    /\ IsSlider(control)
    /\ {"min", "max", "step"} \subseteq DOMAIN control
    /\ ~RLess(NumQ(control["max"]), NumQ(control["min"]))
    /\ RLess(<<0, 1>>, NumQ(control["step"]))

\* C13: for a slider with numeric min <= max and a positive step,
\* normalize_value returns for every numeric input a value within
\* [min, max]: snapping after clamping moves it neither above max nor
\* below min
C13_SliderWithinRange ==
    (NumberApplied /\ BoundedSlider(probe.control)) =>
        /\ probe.normalized.ret = "coerced"
        /\ IsNumber(probe.normalized.val)
        /\ ~RLess(NumQ(probe.normalized.val), NumQ(probe.control["min"]))
        /\ ~RLess(NumQ(probe.control["max"]), NumQ(probe.normalized.val))

(***************************************************************************)
(* Storage that can fail.  write_text opens the file, which truncates it,   *)
(* and then writes: a write succeeds, fails before the file is touched     *)
(* ("fail"), or fails after the truncation and leaves text that is no JSON *)
(* ("torn").  The documents hold JSON values under string keys only, which *)
(* json.dumps and json.loads take there and back unchanged.                *)
(***************************************************************************)
DiskOutcomes == {"ok", "fail", "torn"}

\* a write that reports success and stores nothing
write_json_lost(file, data, disk) ==
    [ret |-> IF disk = "ok" THEN "ok" ELSE "raise",
     file |-> IF disk = "torn" THEN Garbage ELSE file]

\* lines 102-103: the outcome and what the file holds afterwards
write_json(file, data, disk) ==
    [ret |-> IF disk = "ok" THEN "ok" ELSE "raise",
     file |-> IF disk = "ok" THEN D(data)
              ELSE IF disk = "torn" THEN Garbage
              ELSE file]

\* what an operation leaves in probe: the disk's behaviour, the kind of the
\* exception that reached the caller, the document and the file before it
Outcome(disk, failure, doc, file) ==
    [disk |-> disk, failure |-> failure, doc |-> doc, file |-> file]

\* lines 521-522 and 539-541: what the import of the module leaves, when its
\* own writes succeed
Imported(controls, built, loaded, pruned) ==
    [ok |-> built.ret = "ok" /\ pruned.ret = "ok",
     controls |-> controls,
     map |-> IF built.ret = "ok" THEN built.map ELSE <<>>,
     state |-> pruned.state,
     file |-> IF pruned.state # loaded.state.v
              THEN D(pruned.state) ELSE loaded.file]

ImportWith(controls, loaded) ==
    Imported(controls, build_control_map(controls), loaded,
             prune_mapped_state_entries(loaded.state.v, controls))

Import(cf, sf) == ImportWith(load_controls(cf), load_state(sf))

\* catalogs and updates of the runs with a failing disk: a plain path, an
\* alias of it and an alias that is pruned; leaves that are written, rejected
\* and that raise
StoredControlFiles ==
    {D([controls |-> L(items)]) :
        items \in SeqsUpTo({ IntInput(S(<<"ac", "power">>), Empty),
                             IntInput(Str("alias"),
                                      [maps_to |-> S(<<"ac", "power">>)]),
                             IntInput(Str("ac"), [maps_to |-> Str("alias")]) },
                           MaxControls)}

StoredPayloads ==
    { OD(<<>>),
      OD(<< <<"alias", I(1)>> >>),
      OD(<< <<"alias", Str("abc")>> >>),
      OD(<< <<"alias", Inf>> >>),
      OD(<< <<"ac", I(0)>> >>),
      OD(<< <<"ac", OD(<< <<"power", I(0)>> >>)>> >>),
      OD(<< <<"ac", OD(<< <<"power", Str("abc")>> >>)>> >>),
      OD(<< <<"alias", I(0)>>, <<"ac", OD(<< <<"power", I(1)>> >>)>> >>) }

PersistInit ==
    \E cf \in StoredControlFiles, sf \in StateFiles :
        /\ Import(cf, sf).ok
        /\ controlsFile = cf
        /\ CONTROLS = Import(cf, sf).controls
        /\ CONTROL_MAP = Import(cf, sf).map
        /\ State = Import(cf, sf).state
        /\ stateFile = Import(cf, sf).file
        /\ last = Served("start", FALSE, OD(<<>>))
        /\ probe = Outcome("ok", "none", Import(cf, sf).state, sf)

\* the process is started again on the files as they are
StartedFrom(imported) ==
    /\ imported.ok
    /\ CONTROLS' = imported.controls
    /\ CONTROL_MAP' = imported.map
    /\ State' = imported.state
    /\ stateFile' = imported.file
    /\ last' = Served("start", FALSE, OD(<<>>))
    /\ probe' = Outcome("ok", "none", imported.state, stateFile)
    /\ UNCHANGED controlsFile

Restart == StartedFrom(Import(controlsFile, stateFile))

\* lines 517-518: write_json is reached unless the loop or the pruning
\* raised; its exception leaves apply_update like theirs
Written(update, applied, written, disk) ==
    /\ State' = applied.state
    /\ stateFile' = IF applied.ret = "ok" THEN written.file ELSE stateFile
    /\ last' = Served("apply", applied.ret = "raise" \/ written.ret = "raise",
                      update)
    /\ probe' = Outcome(disk,
                        IF applied.ret = "raise" THEN "input"
                        ELSE IF written.ret = "raise" THEN "persist"
                        ELSE "none",
                        State, stateFile)

\* lines 502-518
ApplyAndWrite(update, applied, disk) ==
    Written(update, applied, write_json(stateFile, applied.state, disk), disk)

\* lines 113-116, then apply_update
Refreshed(update, controls, built, disk) ==
    /\ CONTROLS' = controls
    /\ IF built.ret = "raise"
       THEN /\ UNCHANGED <<CONTROL_MAP, State, stateFile>>
            /\ last' = Served("refresh", TRUE, update)
            /\ probe' = Outcome(disk, "input", State, stateFile)
       ELSE /\ CONTROL_MAP' = built.map
            /\ ApplyAndWrite(update,
                             apply_update(State, update, built.map, controls),
                             disk)
    /\ UNCHANGED controlsFile

RefreshedFrom(update, controls, disk) ==
    Refreshed(update, controls, build_control_map(controls), disk)

\* lines 602-611: POST /api/state, and lines 625-699 when the provider
\* proposes updates
UpdateAndWrite ==
    \E update \in StoredPayloads, disk \in DiskOutcomes :
        RefreshedFrom(update, load_controls(controlsFile), disk)

\* lines 619-620: STATE is replaced before the write
ResetWritten(written, disk) ==
    /\ State' = DEFAULT_STATE.v
    /\ stateFile' = written.file
    /\ last' = Served("reset", written.ret = "raise", OD(<<>>))
    /\ probe' = Outcome(disk, IF written.ret = "raise" THEN "persist" ELSE "none",
                        State, stateFile)
    /\ UNCHANGED <<controlsFile, CONTROLS, CONTROL_MAP>>

\* lines 614-622: POST /api/reset
ResetAndWrite ==
    \E disk \in DiskOutcomes :
        ResetWritten(write_json(stateFile, DEFAULT_STATE.v, disk), disk)

PersistNext == UpdateAndWrite \/ ResetAndWrite \/ Restart

PersistSpec == PersistInit /\ [][PersistNext]_vars

\* the update is rejected: a leaf of it is, and no leaf of it is written or
\* raises
Rejects(index, leaves) ==
    /\ \E i \in 1..Len(leaves) :
          KnownLeaf(index, leaves, i) /\ OutcomeOf(index, leaves, i).ret = "skip"
    /\ \A i \in 1..Len(leaves) :
          KnownLeaf(index, leaves, i) => OutcomeOf(index, leaves, i).ret = "skip"

\* C11: after every apply_update that returns, the file holds the document
\* that is in memory, whatever starts, updates and resets came before; a
\* failed write leaves apply_update as an exception, which a rejected update
\* does not, and the document in memory then holds the update while the
\* file holds what it held or no document
C11_PersistedAfterApply ==
    last.op = "apply" =>
        /\ ~last.raised => stateFile = D(State)
        /\ ~last.raised <=> probe.failure = "none"
        /\ ( /\ probe.disk # "ok"
             /\ apply_update(probe.doc, last.update, CONTROL_MAP, CONTROLS).ret
                  = "ok" )
           => /\ last.raised
              /\ probe.failure = "persist"
              /\ State = apply_update(probe.doc, last.update, CONTROL_MAP,
                                      CONTROLS).state
              /\ stateFile \in {probe.file, Garbage}
        /\ (probe.disk = "ok" /\ Rejects(CONTROL_MAP, LeavesOf(last.update)))
           => /\ ~last.raised
              /\ probe.failure = "none"

\* an update was written to the file after a write that had failed and left
\* no document in it: the file was behind the document and holds it now
C11_Witness ==
    /\ last.op = "apply"
    /\ ~last.raised
    /\ probe.file = Garbage
    /\ State # probe.doc
    /\ stateFile = D(State)

(***************************************************************************)
(* Two requests in flight.  The server runs each request in a thread of    *)
(* its own (line 704, app.run); CONTROLS and CONTROL_MAP are globals that  *)
(* every handler reassigns through refresh_controls and that apply_update  *)
(* reads again at each leaf (line 505) and at the pruning (line 516).  One *)
(* thread serves POST /api/state, the other GET /api/controls, and         *)
(* controls.json is edited in between.  probe holds the position and the   *)
(* locals of the two threads, and which index and catalog the running      *)
(* apply_update has read.                                                  *)
(***************************************************************************)
CatalogVersions ==
    { D([controls |-> L(<<IntInput(Str("ac"), Empty)>>)]),
      D([controls |-> L(<<IntInput(Str("alias"),
                                   [maps_to |-> S(<<"ac", "power">>)])>>)]),
      D([controls |-> L(<<IntInput(S(<<"ac", "power">>), Empty),
                          IntInput(Str("ac"), [maps_to |-> Str("alias")])>>)]) }

InFlightPayloads ==
    { OD(<< <<"ac", I(1)>> >>),
      OD(<< <<"alias", I(0)>>, <<"ac", OD(<< <<"power", I(1)>> >>)>> >>),
      OD(<< <<"ac", I(0)>>, <<"alias", Inf>> >>) }

\* pc: where the thread of POST /api/state stands; rpc: where the thread of
\* GET /api/controls stands
Threads(pc, rpc, step, update, updates, indexes, catalog) ==
    [pc |-> pc, rpc |-> rpc, step |-> step, update |-> update,
     updates |-> updates, indexes |-> indexes, catalog |-> catalog]

At(pc, step) ==
    Threads(pc, probe.rpc, step, probe.update, probe.updates, probe.indexes,
            probe.catalog)

InFlightInit ==
    \E cf \in CatalogVersions :
        /\ Import(cf, D([alias |-> I(7), ac |-> D([power |-> Null])])).ok
        /\ controlsFile = cf
        /\ CONTROLS = load_controls(cf)
        /\ CONTROL_MAP = build_control_map(load_controls(cf)).map
        /\ State = Import(cf, D([alias |-> I(7), ac |-> D([power |-> Null])])).state
        /\ stateFile = D(State)
        /\ last = Served("start", FALSE, OD(<<>>))
        /\ probe = Threads("idle", "idle", "start", OD(<<>>), <<>>, {}, <<>>)

\* controls.json is replaced by another version
EditCatalog ==
    /\ \E cf \in CatalogVersions \ {controlsFile} : controlsFile' = cf
    /\ probe' = At(probe.pc, "edit")
    /\ UNCHANGED <<stateFile, CONTROLS, CONTROL_MAP, State, last>>

\* line 115 in the thread of POST /api/state (called at line 604)
UpdaterLoads ==
    /\ probe.pc = "idle"
    /\ CONTROLS' = load_controls(controlsFile)
    /\ probe' = At("loaded", "load")
    /\ UNCHANGED <<controlsFile, stateFile, CONTROL_MAP, State, last>>

\* line 116: build_control_map reads the global CONTROLS
Built(built, pc, rpc, op, raised) ==
    /\ CONTROL_MAP' = IF built.ret = "ok" THEN built.map ELSE CONTROL_MAP
    /\ probe' = Threads(IF raised /\ built.ret = "raise" THEN "idle" ELSE pc,
                        rpc, "build", probe.update, probe.updates,
                        probe.indexes, probe.catalog)
    /\ last' = IF op = "controls" \/ built.ret = "raise"
               THEN Served(op, built.ret = "raise", OD(<<>>)) ELSE last
    /\ UNCHANGED <<controlsFile, stateFile, CONTROLS, State>>

UpdaterBuilds ==
    /\ probe.pc = "loaded"
    /\ Built(build_control_map(CONTROLS), "built", probe.rpc, "refresh", TRUE)

\* lines 607-610 and line 503: the payload is flattened
UpdaterFlattens ==
    /\ probe.pc = "built"
    /\ \E update \in InFlightPayloads :
          probe' = Threads("loop", probe.rpc, "flatten", update,
                           flatten_update(update.v, <<>>), {}, <<>>)
    /\ UNCHANGED <<controlsFile, stateFile, CONTROLS, CONTROL_MAP, State, last>>

\* lines 505-515 for the next pair: CONTROL_MAP is read as it is now
LeafApplied(applied) ==
    /\ State' = applied.state
    /\ probe' = Threads(IF applied.ret = "raise" THEN "idle" ELSE "loop",
                        probe.rpc, "leaf", probe.update, Tail(probe.updates),
                        probe.indexes \cup {CONTROL_MAP}, probe.catalog)
    /\ last' = IF applied.ret = "raise"
               THEN Served("apply", TRUE, probe.update) ELSE last
    /\ UNCHANGED <<controlsFile, stateFile, CONTROLS, CONTROL_MAP>>

UpdaterAppliesLeaf ==
    /\ probe.pc = "loop"
    /\ probe.updates # <<>>
    /\ LeafApplied(ApplyLeaves(State, <<Head(probe.updates)>>, CONTROL_MAP))

\* line 516: CONTROLS is read as it is now
Pruned(pruned) ==
    /\ State' = pruned.state
    /\ probe' = Threads(IF pruned.ret = "raise" THEN "idle" ELSE "write",
                        probe.rpc, "prune", probe.update, probe.updates,
                        probe.indexes, <<CONTROLS>>)
    /\ last' = IF pruned.ret = "raise"
               THEN Served("apply", TRUE, probe.update) ELSE last
    /\ UNCHANGED <<controlsFile, stateFile, CONTROLS, CONTROL_MAP>>

UpdaterPrunes ==
    /\ probe.pc = "loop"
    /\ probe.updates = <<>>
    /\ Pruned(prune_mapped_state_entries(State, CONTROLS))

\* lines 517-518
UpdaterWrites ==
    /\ probe.pc = "write"
    /\ stateFile' = D(State)
    /\ last' = Served("apply", FALSE, probe.update)
    /\ probe' = At("idle", "write")
    /\ UNCHANGED <<controlsFile, CONTROLS, CONTROL_MAP, State>>

\* line 115 in the thread of GET /api/controls (called at line 588)
RefresherLoads ==
    /\ probe.rpc = "idle"
    /\ CONTROLS' = load_controls(controlsFile)
    /\ probe' = Threads(probe.pc, "loaded", "load", probe.update,
                        probe.updates, probe.indexes, probe.catalog)
    /\ UNCHANGED <<controlsFile, stateFile, CONTROL_MAP, State, last>>

\* line 116 in the thread of GET /api/controls, and its return at line 589
RefresherBuilds ==
    /\ probe.rpc = "loaded"
    /\ Built(build_control_map(CONTROLS), probe.pc, "idle", "controls", FALSE)

InFlightNext ==
    \/ EditCatalog
    \/ UpdaterLoads
    \/ UpdaterBuilds
    \/ UpdaterFlattens
    \/ UpdaterAppliesLeaf
    \/ UpdaterPrunes
    \/ UpdaterWrites
    \/ RefresherLoads
    \/ RefresherBuilds

InFlightSpec == InFlightInit /\ [][InFlightNext]_vars

\* C12: a refresh_controls that runs while an apply_update is under way
\* never changes the state document, and the apply_update reads one
\* catalog and its index throughout: every index in which it looked up a
\* leaf is the index of the catalog it prunes with
C12_RebuildSafe ==
    [][ /\ probe'.step \in {"load", "build"} => State' = State
        /\ probe'.step = "prune" =>
              \A index \in probe'.indexes :
                 index = build_control_map(probe'.catalog[1]).map ]_vars

====
